---- MODULE Spec2Model ----
(***************************************************************************)
(* Model of the leaderboard extraction of src/src/components/parser.py:    *)
(* extract_provider_name and parse_leaderboard (header selection from      *)
(* thead, fallback header from the first meaningful tbody row, extraction  *)
(* of the data rows).                                                      *)
(*                                                                         *)
(* A Python str is a sequence of one-character strings, so that strip,     *)
(* lower, the substring test, endswith, basename and splitext are computed *)
(* and not assumed.  A parsed document is a record: the first table's      *)
(* thead and tbody (each present or absent) with their tr rows, each row   *)
(* its td/th cells, each cell its text nodes ("pieces") and its first img  *)
(* element, if any.  Python indices are kept 0-based in the variables      *)
(* (best_idx, header_row_index); TLA+ sequences are 1-based.               *)
(***************************************************************************)
EXTENDS Integers, Sequences, FiniteSets, TLC

\* ------------------------------------------------------------------ bounds

\* The number of tr and td/th elements below the first table of a document.
MaxNodes == 5

\* ----------------------------------------------------------------- strings

Space == " "

\* The characters str.strip() removes (the documents of the model use blanks).
Whitespace == {Space}

UpperLetters ==
  <<"A","B","C","D","E","F","G","H","I","J","K","L","M",
    "N","O","P","Q","R","S","T","U","V","W","X","Y","Z">>

LowerLetters ==
  <<"a","b","c","d","e","f","g","h","i","j","k","l","m",
    "n","o","p","q","r","s","t","u","v","w","x","y","z">>

\* str.lower() on one character.
LowerChar(c) ==
  IF \E i \in 1..26 : UpperLetters[i] = c
    THEN LowerLetters[CHOOSE i \in 1..26 : UpperLetters[i] = c]
    ELSE c

\* str.lower()
Lower(s) == [i \in 1..Len(s) |-> LowerChar(s[i])]

RECURSIVE LStrip(_)
LStrip(s) == IF s # <<>> /\ Head(s) \in Whitespace THEN LStrip(Tail(s)) ELSE s

RECURSIVE RStrip(_)
RStrip(s) ==
  IF s # <<>> /\ s[Len(s)] \in Whitespace THEN RStrip(SubSeq(s, 1, Len(s) - 1)) ELSE s

\* str.strip()
Strip(s) == RStrip(LStrip(s))

\* Python's `pat in s` for strings.
Contains(pat, s) ==
  \E i \in 0..(Len(s) - Len(pat)) : SubSeq(s, i + 1, i + Len(pat)) = pat

\* str.endswith(suffix)
EndsWith(s, suffix) ==
  /\ Len(s) >= Len(suffix)
  /\ SubSeq(s, Len(s) - Len(suffix) + 1, Len(s)) = suffix

\* The largest index of character c in s, 0 when c does not occur (str.rfind + 1).
RFind(s, c) ==
  IF \E i \in 1..Len(s) : s[i] = c
    THEN CHOOSE i \in 1..Len(s) : s[i] = c /\ \A j \in (i + 1)..Len(s) : s[j] # c
    ELSE 0

\* os.path.basename(p): what follows the last "/".
Basename(p) == SubSeq(p, RFind(p, "/") + 1, Len(p))

\* os.path.splitext(name)[0] for a name without "/": the name up to its last
\* ".", unless only "." characters precede that "." (a leading-dot name has no
\* extension).
SplitextRoot(name) ==
  LET dot == RFind(name, ".") IN
  IF dot > 0 /\ \E i \in 1..(dot - 1) : name[i] # "."
    THEN SubSeq(name, 1, dot - 1)
    ELSE name

\* str(n) for n >= 0.
Digits == <<"0","1","2","3","4","5","6","7","8","9">>

RECURSIVE IntToStr(_)
IntToStr(n) ==
  IF n < 10 THEN <<Digits[n + 1]>> ELSE IntToStr(n \div 10) \o <<Digits[(n % 10) + 1]>>

\* separator.join(strs)
RECURSIVE Join(_, _)
Join(sep, strs) ==
  IF strs = <<>> THEN <<>>
  ELSE IF Len(strs) = 1 THEN strs[1]
  ELSE strs[1] \o sep \o Join(sep, Tail(strs))

\* ------------------------------------------------------------------- cells

\* Tag.get_text(separator, strip=True): every text node stripped, the empty
\* ones skipped, the rest joined by the separator.
RECURSIVE StrippedPieces(_)
StrippedPieces(pieces) ==
  IF pieces = <<>> THEN <<>>
  ELSE LET p == Strip(Head(pieces)) IN
       IF p = <<>> THEN StrippedPieces(Tail(pieces))
       ELSE <<p>> \o StrippedPieces(Tail(pieces))

GetText(sep, pieces) == Join(sep, StrippedPieces(pieces))

\* An optional value (an attribute, a found element) is a sequence of length
\* at most one; Get is dict.get(key, default).
Get(opt, default) == IF opt = <<>> THEN default ELSE opt[1]

LogoSuffix == <<" ","l","o","g","o">>

\* Mutant: the src attribute is consulted before the alt attribute.
extract_provider_name_SrcFirst(cell) ==
  LET img == cell.img IN
  IF img # <<>>
    THEN LET src == Strip(Get(img[1].src, <<>>)) IN
         IF src # <<>>
           THEN SplitextRoot(Basename(src))
           ELSE LET alt_text == Strip(Get(img[1].alt, <<>>)) IN
                IF alt_text # <<>>
                  THEN IF EndsWith(Lower(alt_text), LogoSuffix)
                         THEN Strip(SubSeq(alt_text, 1, Len(alt_text) - 5))
                         ELSE alt_text
                  ELSE <<>>
    ELSE <<>>

\* Mutant: the suffix is looked for without lowering the alt text.
extract_provider_name_CaseSensitive(cell) ==
  LET img == cell.img IN
  IF img # <<>>
    THEN LET alt_text == Strip(Get(img[1].alt, <<>>)) IN
         IF alt_text # <<>>
           THEN IF EndsWith(alt_text, LogoSuffix)
                  THEN Strip(SubSeq(alt_text, 1, Len(alt_text) - 5))
                  ELSE alt_text
           ELSE LET src == Strip(Get(img[1].src, <<>>)) IN
                IF src # <<>>
                  THEN SplitextRoot(Basename(src))
                  ELSE <<>>
    ELSE <<>>

\* The provider name of a cell: from the alt of its first img, else from the
\* file name of its src, else empty.
extract_provider_name(cell) ==
  LET img == cell.img IN
  IF img # <<>>
    THEN LET alt_text == Strip(Get(img[1].alt, <<>>)) IN
         IF alt_text # <<>>
           THEN IF EndsWith(Lower(alt_text), LogoSuffix)
                  THEN Strip(SubSeq(alt_text, 1, Len(alt_text) - 5))
                  ELSE alt_text
           ELSE LET src == Strip(Get(img[1].src, <<>>)) IN
                IF src # <<>>
                  THEN SplitextRoot(Basename(src))
                  ELSE <<>>
    ELSE <<>>

\* Mutant: a body cell is read like a header cell, with a blank separator.
BodyCellText_Spaced(cell) == GetText(<<Space>>, cell.pieces)

\* cell.get_text(strip=True) of a tbody cell.
BodyCellText(cell) == GetText(<<>>, cell.pieces)

\* th.get_text(" ", strip=True) of a thead cell.
HeadCellText(cell) == GetText(<<Space>>, cell.pieces)

\* Mutant: the first cell is read by its text, like the other cells.
CellData_FirstAsText(row) == [idx \in 1..Len(row) |-> BodyCellText(row[idx])]

\* Mutant: the cells without text are left out of the row.
CellData_DropEmpty(row) ==
  LET all == [idx \in 1..Len(row) |->
                IF idx = 1 THEN extract_provider_name(row[idx])
                ELSE BodyCellText(row[idx])]
  IN SelectSeq(all, LAMBDA c : c # <<>>)

\* The cell list of one tbody row: the first cell by provider extraction, the
\* others by their stripped text.
CellData(row) ==
  [idx \in 1..Len(row) |->
     IF idx = 1 THEN extract_provider_name(row[idx])
     ELSE BodyCellText(row[idx])]

\* Mutant: a row counts as soon as it has cells (the any() test dropped).
Meaningful_NonEmptyList(cell_data) == cell_data # <<>>

\* `cell_data and any(cell_data)`: a non-empty list holding a non-empty str.
Meaningful(cell_data) ==
  /\ cell_data # <<>>
  /\ \E i \in 1..Len(cell_data) : cell_data[i] # <<>>

\* -------------------------------------------------------- header selection

\* The text of every cell of every thead row, read with a blank between the
\* text nodes.
HeaderTexts(header_rows) ==
  [r \in 1..Len(header_rows) |->
     [c \in 1..Len(header_rows[r]) |-> HeadCellText(header_rows[r][c])]]

known_header_patterns ==
  << <<"m","o","d","e","l">>,
     <<"p","e","r","f","o","r","m","a","n","c","e">>,
     <<"s","c","o","r","e">>,
     <<"r","a","n","k">>,
     <<"p","r","o","v","i","d","e","r">>,
     <<"n","a","m","e">>,
     <<"a","c","c","u","r","a","c","y">> >>

\* Mutant: the score counts the cells that hold a pattern, not the patterns.
LabelScore_CellCount(headers) ==
  Cardinality({i \in 1..Len(headers) :
                 /\ headers[i] # <<>>
                 /\ \E k \in 1..Len(known_header_patterns) :
                       Contains(known_header_patterns[k], Lower(headers[i]))})

\* Step 1's score of one thead row: how many known patterns occur in some
\* non-empty, lower-cased cell text of the row.
LabelScore(headers) ==
  LET lower_headers == {Lower(headers[i]) : i \in {j \in 1..Len(headers) : headers[j] # <<>>}}
  IN Cardinality({k \in 1..Len(known_header_patterns) :
                    \E header \in lower_headers : Contains(known_header_patterns[k], header)})

\* Mutant: `>=`, so that a later row of equal score replaces the best.
ScoreImproves_OrEqual(score, best_score) == score >= best_score

\* `if score > best_score`
ScoreImproves(score, best_score) == score > best_score

\* Step 1's loop over the thead rows from index idx on; best is the pair
\* (best_idx, best_score) so far.
RECURSIVE ScanLabels(_, _, _)
ScanLabels(header_texts, idx, best) ==
  IF idx >= Len(header_texts) THEN best
  ELSE LET score == LabelScore(header_texts[idx + 1]) IN
       ScanLabels(header_texts, idx + 1,
                  IF ScoreImproves(score, best.score)
                    THEN [idx |-> idx, score |-> score]
                    ELSE best)

\* Step 2's quality of one thead row: distinct non-empty texts (lower-cased)
\* minus empty cells.
Quality(headers) ==
  LET non_empty == {j \in 1..Len(headers) : headers[j] # <<>> /\ Strip(headers[j]) # <<>>}
      non_empty_count == Cardinality(non_empty)
      unique_count == Cardinality({Lower(headers[j]) : j \in non_empty})
      empty_count == Len(headers) - non_empty_count
  IN unique_count - empty_count

\* `if quality > best_quality`
QualityImproves(quality, best_quality) == quality > best_quality

\* Step 2's loop; best is the pair (best_idx, best_quality) so far.
RECURSIVE ScanQuality(_, _, _)
ScanQuality(header_texts, idx, best) ==
  IF idx >= Len(header_texts) THEN best
  ELSE LET quality == Quality(header_texts[idx + 1]) IN
       ScanQuality(header_texts, idx + 1,
                   IF QualityImproves(quality, best.quality)
                     THEN [idx |-> idx, quality |-> quality]
                     ELSE best)

\* Mutant: the first thead row is the header, whatever the rows hold.
SelectHeaderRow_First(header_texts) ==
  [idx |-> 0, score |-> LabelScore(header_texts[1])]

\* The thead row chosen as header: Step 1, and Step 2 when Step 1 left
\* best_idx at -1.  The result is (best_idx, best_score).
SelectHeaderRow(header_texts) ==
  LET a == ScanLabels(header_texts, 0, [idx |-> -1, score |-> -1]) IN
  IF a.idx = -1
    THEN [idx |-> ScanQuality(header_texts, 0, [idx |-> 0, quality |-> -1]).idx,
          score |-> a.score]
    ELSE a

\* header_row_index = None
None == -1

\* Mutant: the loop lacks its break, so the last meaningful row is kept.
RECURSIVE FirstMeaningfulRow_NoBreak(_, _)
FirstMeaningfulRow_NoBreak(rows, row_idx) ==
  IF row_idx >= Len(rows) THEN None
  ELSE LET later == FirstMeaningfulRow_NoBreak(rows, row_idx + 1) IN
       IF later # None THEN later
       ELSE IF Meaningful(CellData(rows[row_idx + 1])) THEN row_idx
       ELSE None

\* Mutant: the first tbody row is adopted without the test for content.
FirstMeaningfulRow_First(rows, row_idx) ==
  IF row_idx >= Len(rows) THEN None ELSE row_idx

\* The index of the first meaningful tbody row from row_idx on, None when
\* there is none.
RECURSIVE FirstMeaningfulRow(_, _)
FirstMeaningfulRow(rows, row_idx) ==
  IF row_idx >= Len(rows) THEN None
  ELSE IF Meaningful(CellData(rows[row_idx + 1])) THEN row_idx
  ELSE FirstMeaningfulRow(rows, row_idx + 1)

ColumnPrefix == <<"c","o","l","u","m","n","_">>

\* Mutant: an empty cell stays an empty column name.
SafeName_NoPlaceholder(cell, i) == Strip(cell)

\* Mutant: the placeholder numbers the columns from 0.
SafeName_ZeroBased(cell, i) ==
  IF Strip(cell) # <<>> THEN Strip(cell) ELSE ColumnPrefix \o IntToStr(i)

\* The column name made of one cell of the adopted row (i is 0-based).
SafeName(cell, i) ==
  IF Strip(cell) # <<>> THEN Strip(cell) ELSE ColumnPrefix \o IntToStr(i + 1)

\* The header made of the adopted row's cell list.
PlaceholderHeaders(cell_data) ==
  [k \in 1..Len(cell_data) |-> SafeName(cell_data[k], k - 1)]

\* ----------------------------------------------------------- data rows

\* Mutant: the data loop does not pass over the row used as header.
SkipsRow_Never(row_idx, hri) == FALSE

\* Whether the data loop passes over the row at row_idx.
SkipsRow(row_idx, hri) == hri # None /\ row_idx = hri

\* Mutant: each row is inserted at the front of the data instead of appended.
RECURSIVE DataRows_Reversed(_, _, _)
DataRows_Reversed(rows, row_idx, hri) ==
  IF row_idx >= Len(rows) THEN <<>>
  ELSE IF SkipsRow(row_idx, hri) THEN DataRows_Reversed(rows, row_idx + 1, hri)
  ELSE LET cell_data == CellData(rows[row_idx + 1]) IN
       IF Meaningful(cell_data)
         THEN DataRows_Reversed(rows, row_idx + 1, hri) \o <<cell_data>>
         ELSE DataRows_Reversed(rows, row_idx + 1, hri)

\* The data loop from row_idx on: the cell lists of the meaningful rows that
\* are not the row used as header.
RECURSIVE DataRows(_, _, _)
DataRows(rows, row_idx, hri) ==
  IF row_idx >= Len(rows) THEN <<>>
  ELSE IF SkipsRow(row_idx, hri) THEN DataRows(rows, row_idx + 1, hri)
  ELSE LET cell_data == CellData(rows[row_idx + 1]) IN
       IF Meaningful(cell_data)
         THEN <<cell_data>> \o DataRows(rows, row_idx + 1, hri)
         ELSE DataRows(rows, row_idx + 1, hri)

\* --------------------------------------------------------------- documents

Cell(pieces, img) == [pieces |-> pieces, img |-> img]

Img(alt, src) == <<[alt |-> alt, src |-> src]>>

\* <th></th>, <th>Model</th>, <th><b>Model</b> <i>Name</i></th>, <th> Extra </th>
HeadCells ==
  { Cell(<<>>, <<>>),
    Cell(<< <<"M","o","d","e","l">> >>, <<>>),
    Cell(<< <<"M","o","d","e","l">>, <<" ">>, <<"N","a","m","e">> >>, <<>>),
    Cell(<< <<" ","E","x","t","r","a"," ">> >>, <<>>) }

\* <td></td>, <td> GPT</td>, <td><img alt="Ai Logo" src="l/a.svg"></td>,
\* <td><img src="l/ b.svg"></td>, <td><img alt=" " src="l/ .svg"></td>
BodyCells ==
  { Cell(<<>>, <<>>),
    Cell(<< <<" ","G","P","T">> >>, <<>>),
    Cell(<<>>, Img(<< <<"A","i"," ","L","o","g","o">> >>, << <<"l","/","a",".","s","v","g">> >>)),
    Cell(<<>>, Img(<<>>, << <<"l","/"," ","b",".","s","v","g">> >>)),
    Cell(<<>>, Img(<< <<" ">> >>, << <<"l","/"," ",".","s","v","g">> >>)) }

\* The tr and td/th elements of a sequence of rows.
RECURSIVE Nodes(_)
Nodes(rows) == IF rows = <<>> THEN 0 ELSE 1 + Len(Head(rows)) + Nodes(Tail(rows))

\* The sequences of rows, of cells from Cells, with at most n elements.
RECURSIVE RowSeqs(_, _)
RowSeqs(Cells, n) ==
  {<<>>} \cup
  UNION { { <<r>> \o rest : r \in [1..k -> Cells], rest \in RowSeqs(Cells, n - 1 - k) }
          : k \in 0..(n - 1) }

\* A section (thead, tbody) is absent, or present with its rows.
Sections(Cells, n) ==
  {[present |-> FALSE, rows |-> <<>>]} \cup
  {[present |-> TRUE, rows |-> rows] : rows \in RowSeqs(Cells, n)}

\* <script id="__NEXT_DATA__">: absent, without a string, holding {} and
\* holding { (which json.loads rejects).
ScriptTags ==
  { <<>>,
    <<[string |-> <<>>]>>,
    <<[string |-> << <<"{","}">> >>]>>,
    <<[string |-> << <<"{">> >>]>> }

\* A document without any table.
NoTable ==
  [script |-> <<>>,
   hasTable |-> FALSE,
   thead |-> [present |-> FALSE, rows |-> <<>>],
   tbody |-> [present |-> FALSE, rows |-> <<>>],
   later |-> <<>>]

\* The theads of exactly h elements (the absent thead among those of 0).
HeadSections ==
  [h \in 0..MaxNodes |->
     {s \in Sections(HeadCells, h) : Nodes(s.rows) = h}]

\* The tbodies of at most n elements.
BodySections == [n \in 0..MaxNodes |-> Sections(BodyCells, n)]

\* A document of one table: thead and tbody are those of the first table,
\* later holds the tables that follow it.
Doc(d) ==
  [script |-> <<>>, hasTable |-> TRUE, thead |-> d[1], tbody |-> d[2], later |-> <<>>]

\* The documents without a table, with every script tag.
NoTableDocs == {[NoTable EXCEPT !.script = sc] : sc \in ScriptTags}

\* The documents: no table at all, or a first table whose thead and tbody hold
\* at most MaxNodes elements together.
Docs ==
  NoTableDocs \cup
  { Doc(d) : d \in UNION { HeadSections[h] \X BodySections[MaxNodes - h] : h \in 0..MaxNodes } }

\* ------------------------------------------------------- the steps' tests

\* json.loads(text) on the script texts of the model: "ok" or the exception.
JsonLoads(text) == IF text = <<"{","}">> THEN "ok" ELSE "JSONDecodeError"

\* `except json.JSONDecodeError`
Caught(exc) == exc = "JSONDecodeError"

\* The tables of a document, in document order.
Tables(doc) ==
  IF doc.hasTable THEN <<[thead |-> doc.thead, tbody |-> doc.tbody]>> \o doc.later ELSE <<>>

\* Mutant: the last table of the document is taken.
SoupFindTable_Last(doc) ==
  LET ts == Tables(doc) IN IF ts = <<>> THEN <<>> ELSE <<ts[Len(ts)]>>

\* soup.find('table'): the first table, or None (the empty option).
SoupFindTable(doc) ==
  LET ts == Tables(doc) IN IF ts = <<>> THEN <<>> ELSE <<ts[1]>>

\* Mutant: the test for a missing table is dropped.
TableMissing_Never(found) == FALSE

\* `if not table`
TableMissing(found) == found = <<>>

\* Mutant: result is a list that outlives the call (a module-level list, a
\* mutable default argument).
FreshResult_Kept(previous) == previous

\* `result = []`
FreshResult(previous) == <<>>

\* Mutant: a thead marks the headers as found even without rows.
TheadFound_Present(thead) == thead.present

\* headers_found after the thead block: a thead with at least one row.
TheadFound(thead) == thead.present /\ thead.rows # <<>>

\* ------------------------------------------------------------------- state

\* One call of parse_leaderboard: its argument, its position and its locals.
VARIABLES html, pc, table, result, headers_found, header_row_index, best_idx, best_score

\* One reading of one cell: the cell, which reader was applied, and its value.
VARIABLES cell, cell_pc, cell_value

\* The calls that have returned, in order: the document of each and its outcome.
VARIABLES returns

\* One run of main: its position, its locals, and the collaborator calls made.
VARIABLES m_pc, config, url, html_content, leaderboard_data, output_path, calls

\* One call of fetch_html: its arguments, its position, the loop variable, the
\* renderer calls made, the seconds slept since the last of them, the delays
\* announced in the warnings, and the value returned.
VARIABLES f_pc, f_url, retries, delay, attempt, attempts, waited, announced, f_value

\* One call of fetch_html_with_playwright: its arguments, its position, the
\* status messages, the header buttons found, the loop variable, the buttons
\* tried, the exceptions raised so far, the content read, the number of
\* messages emitted when it was read, and the value returned.
VARIABLES r_pc, r_url, click_header_buttons, status_msgs, btn_count, btn, tried,
          r_failed, r_html, read_at, r_value

parse_vars == <<html, pc, table, result, headers_found, header_row_index, best_idx, best_score>>

cell_vars == <<cell, cell_pc, cell_value>>

call_vars == <<returns>>

main_vars == <<m_pc, config, url, html_content, leaderboard_data, output_path, calls>>

fetch_vars == <<f_pc, f_url, retries, delay, attempt, attempts, waited, announced, f_value>>

render_vars ==
  <<r_pc, r_url, click_header_buttons, status_msgs, btn_count, btn, tried,
    r_failed, r_html, read_at, r_value>>

scraper_vars == <<fetch_vars, render_vars>>

\* The variables no step of parse_leaderboard touches.
beyond_parse == <<cell_vars, call_vars, main_vars, scraper_vars>>

\* The variables no cell reader touches.
beyond_cells == <<parse_vars, call_vars, main_vars, scraper_vars>>

vars == <<parse_vars, cell_vars, call_vars, main_vars, scraper_vars>>

\* A configuration as main reads it: config.get(key) is None (the empty
\* option) or a string.
NoConfig == [target_url |-> <<>>, output_csv_path |-> <<>>]

\* fetch_html is not running.
FetchIdle ==
  /\ f_pc = "off"
  /\ f_url = ""
  /\ retries = 0
  /\ delay = 0
  /\ attempt = 0
  /\ attempts = <<>>
  /\ waited = 0
  /\ announced = <<>>
  /\ f_value = <<>>

\* fetch_html_with_playwright is not running.
RenderIdle ==
  /\ r_pc = "off"
  /\ r_url = ""
  /\ click_header_buttons = FALSE
  /\ status_msgs = <<>>
  /\ btn_count = 0
  /\ btn = 0
  /\ tried = <<>>
  /\ r_failed = <<>>
  /\ r_html = ""
  /\ read_at = -1
  /\ r_value = <<>>

\* main is not running.
MainIdle ==
  /\ m_pc = "off"
  /\ config = NoConfig
  /\ url = <<>>
  /\ html_content = <<>>
  /\ leaderboard_data = <<>>
  /\ output_path = <<>>
  /\ calls = <<>>

\* No cell is being read.
CellsIdle ==
  /\ cell = Cell(<<>>, <<>>)
  /\ cell_pc = "off"
  /\ cell_value = <<>>

Init ==
  /\ html \in Docs
  /\ pc = "start"
  /\ table = <<>>
  /\ result = <<>>
  /\ headers_found = FALSE
  /\ header_row_index = None
  /\ best_idx = -1
  /\ best_score = -1
  /\ CellsIdle
  /\ returns = <<>>
  /\ MainIdle
  /\ FetchIdle
  /\ RenderIdle

\* Try to parse Next.js embedded JSON: a JSONDecodeError is caught and logged,
\* nothing is kept of the script.
ReadNextData ==
  /\ pc = "start"
  /\ pc' = IF html.script # <<>> /\ html.script[1].string # <<>>
              THEN LET outcome == JsonLoads(html.script[1].string[1]) IN
                   IF outcome = "ok" \/ Caught(outcome) THEN "table" ELSE "raised"
              ELSE "table"
  /\ UNCHANGED <<html, table, result, headers_found, header_row_index, best_idx, best_score>>
  /\ UNCHANGED beyond_parse

\* soup.find('table'): without a table the call returns [].
FindTable ==
  /\ pc = "table"
  /\ table' = SoupFindTable(html)
  /\ IF TableMissing(table')
       THEN pc' = "done" /\ result' = <<>>
       ELSE pc' = "thead" /\ result' = FreshResult(result)
  /\ UNCHANGED <<html, headers_found, header_row_index, best_idx, best_score>>
  /\ UNCHANGED beyond_parse

\* Extract headers from thead.  table.find on None raises AttributeError.
TheadHeaders ==
  /\ pc = "thead"
  /\ IF table = <<>>
       THEN /\ pc' = "raised"
            /\ UNCHANGED <<result, headers_found, best_idx, best_score>>
       ELSE /\ pc' = "fallback"
            /\ headers_found' = TheadFound(table[1].thead)
            /\ IF table[1].thead.present /\ table[1].thead.rows # <<>>
                 THEN LET header_texts == HeaderTexts(table[1].thead.rows)
                          best == SelectHeaderRow(header_texts)
                          chosen_headers == header_texts[best.idx + 1]
                      IN /\ result' = Append(result, chosen_headers)
                         /\ best_idx' = best.idx
                         /\ best_score' = best.score
                 ELSE UNCHANGED <<result, best_idx, best_score>>
  /\ UNCHANGED <<html, table, header_row_index>>
  /\ UNCHANGED beyond_parse

\* Step 3: without a thead header, the first meaningful tbody row is the header.
FallbackHeaders ==
  /\ pc = "fallback"
  /\ pc' = "rows"
  /\ LET tbody == table[1].tbody
         hri == IF ~headers_found /\ tbody.present
                  THEN FirstMeaningfulRow(tbody.rows, 0)
                  ELSE None
     IN /\ header_row_index' = hri
        /\ IF hri # None
             THEN /\ result' = Append(result, PlaceholderHeaders(CellData(tbody.rows[hri + 1])))
                  /\ headers_found' = TRUE
             ELSE UNCHANGED <<result, headers_found>>
  /\ UNCHANGED <<html, table, best_idx, best_score>>
  /\ UNCHANGED beyond_parse

\* Extract data rows from tbody.
ExtractRows ==
  /\ pc = "rows"
  /\ pc' = "done"
  /\ result' = IF table[1].tbody.present
                 THEN result \o DataRows(table[1].tbody.rows, 0, header_row_index)
                 ELSE result
  /\ UNCHANGED <<html, table, headers_found, header_row_index, best_idx, best_score>>
  /\ UNCHANGED beyond_parse

\* --------------------------------------------------- reading single cells

\* The alt attributes of the test images: absent, empty, blank, plain names,
\* and names with the " logo" ending in several spellings.
TestAlts ==
  { <<>>,
    << <<>> >>,
    << <<" ">> >>,
    << <<"A","i">> >>,
    << <<" ","A","i"," ">> >>,
    << <<"A","i"," ","L","o","g","o">> >>,
    << <<"A","i"," ","l","o","g","o"," ">> >>,
    << <<"A"," ","L","O","G","O">> >>,
    << <<"l","o","g","o">> >>,
    << <<"A","i"," "," ","L","o","g","o">> >>,
    << <<"A","i"," ","l","o","g","o","s">> >>,
    << <<"a"," ","l","o","g","o"," ","l","o","g","o">> >> }

\* The src attributes of the test images: absent, empty, blank, a path, a
\* name with two dots, a dot file, a directory, a bare name.
TestSrcs ==
  { <<>>,
    << <<>> >>,
    << <<" ">> >>,
    << <<"l","/","a",".","s","v","g">> >>,
    << <<" ","a",".","b",".","c"," ">> >>,
    << <<".","s","v","g">> >>,
    << <<"l","/">> >>,
    << <<"a">> >> }

\* The text nodes of the test cells.
TestPieces ==
  { <<>>,
    << <<"a">> >>,
    << <<" ","a"," ">> >>,
    << <<" ">> >>,
    << <<"a"," ","b">> >>,
    << <<"a">>, <<"b">> >>,
    << <<"a"," ">>, <<"b">> >>,
    << <<"a">>, <<" ">>, <<"b">> >>,
    << <<" ","a"," "," ">>, <<" ","b"," ","c"," ">> >> }

\* The test cells: text only, an image only, or an image beside a text.
TestCells ==
  {Cell(p, <<>>) : p \in TestPieces}
    \cup {Cell(<<>>, Img(a, sr)) : a \in TestAlts, sr \in TestSrcs}
    \cup {Cell(<< <<"a">> >>, Img(a, <<>>)) : a \in TestAlts}

ParseIdle ==
  /\ html = NoTable
  /\ pc = "idle"
  /\ table = <<>>
  /\ result = <<>>
  /\ headers_found = FALSE
  /\ header_row_index = None
  /\ best_idx = -1
  /\ best_score = -1

InitCells ==
  /\ ParseIdle
  /\ cell \in TestCells
  /\ cell_pc = "cell"
  /\ cell_value = <<>>
  /\ returns = <<>>
  /\ MainIdle
  /\ FetchIdle
  /\ RenderIdle

\* provider_name = extract_provider_name(cell)
ExtractProviderName ==
  /\ cell_pc = "cell"
  /\ cell_pc' = "named"
  /\ cell_value' = extract_provider_name(cell)
  /\ UNCHANGED <<beyond_cells, cell>>

\* th.get_text(" ", strip=True) for a cell of a thead row
ReadHeaderCell ==
  /\ cell_pc = "cell"
  /\ cell_pc' = "head"
  /\ cell_value' = HeadCellText(cell)
  /\ UNCHANGED <<beyond_cells, cell>>

\* cell.get_text(strip=True) for a cell of a tbody row after the first
ReadBodyCell ==
  /\ cell_pc = "cell"
  /\ cell_pc' = "body"
  /\ cell_value' = BodyCellText(cell)
  /\ UNCHANGED <<beyond_cells, cell>>

NextCells == ExtractProviderName \/ ReadHeaderCell \/ ReadBodyCell

CellSpec == InitCells /\ [][NextCells]_vars

\* ------------------------------------------------------ successive calls

\* The number of calls of one run.
MaxCalls == 3

ModelCell == Cell(<< <<"M","o","d","e","l">> >>, <<>>)

LogoCell == Cell(<<>>, Img(<< <<"A","i"," ","L","o","g","o">> >>, << <<"l","/","a",".","s","v","g">> >>))

TextCell == Cell(<< <<" ","G","P","T">> >>, <<>>)

\* <table></table>
EmptyTable ==
  [thead |-> [present |-> FALSE, rows |-> <<>>],
   tbody |-> [present |-> FALSE, rows |-> <<>>]]

\* A table with a thead row and a tbody row.
UsableTable ==
  [thead |-> [present |-> TRUE, rows |-> << <<ModelCell>> >>],
   tbody |-> [present |-> TRUE, rows |-> << <<LogoCell, TextCell>> >>]]

\* A table without thead whose first tbody row becomes the header.
BodyOnlyTable ==
  [thead |-> [present |-> FALSE, rows |-> <<>>],
   tbody |-> [present |-> TRUE, rows |-> << <<LogoCell>>, <<LogoCell, TextCell>> >>]]

\* The document made of the tables ts, in this order.
WithTables(ts) ==
  [script |-> <<>>,
   hasTable |-> TRUE,
   thead |-> ts[1].thead,
   tbody |-> ts[1].tbody,
   later |-> Tail(ts)]

\* The documents passed to successive calls.
CallDocs ==
  { NoTable,
    WithTables(<<EmptyTable>>),
    WithTables(<<EmptyTable, UsableTable>>),
    WithTables(<<UsableTable>>),
    WithTables(<<UsableTable, BodyOnlyTable>>),
    WithTables(<<BodyOnlyTable>>),
    WithTables(<<BodyOnlyTable, EmptyTable>>) }

InitCalls ==
  /\ ParseIdle
  /\ CellsIdle
  /\ returns = <<>>
  /\ MainIdle
  /\ FetchIdle
  /\ RenderIdle

\* parse_leaderboard(html) is called: the locals are not yet assigned and hold
\* whatever the previous call left.
Invoke ==
  /\ pc = "idle"
  /\ Len(returns) < MaxCalls
  /\ html' \in CallDocs
  /\ pc' = "start"
  /\ UNCHANGED <<table, result, headers_found, header_row_index, best_idx, best_score>>
  /\ UNCHANGED beyond_parse

\* The call ends, by `return` or by an exception.
Return ==
  /\ pc \in {"done", "raised"}
  /\ pc' = "idle"
  /\ returns' = Append(returns, [doc |-> html,
                                  raised |-> (pc = "raised"),
                                  value |-> IF pc = "done" THEN result ELSE <<>>])
  /\ UNCHANGED <<html, table, result, headers_found, header_row_index, best_idx, best_score>>
  /\ UNCHANGED <<cell_vars, main_vars, scraper_vars>>

NextCalls ==
  \/ Invoke \/ Return
  \/ ReadNextData \/ FindTable \/ TheadHeaders \/ FallbackHeaders \/ ExtractRows

CallsSpec == InitCalls /\ [][NextCalls]_vars

\* ------------------------------------------------------------------ main

\* The configurations load_config can hand to main: each key missing, empty
\* or set.
Configs ==
  { [target_url |-> u, output_csv_path |-> o] :
      u \in { <<>>, <<"">>, <<"https://aa">> },
      o \in { <<>>, <<"">>, <<"out.csv">> } }

\* What a fetch can return: None (the empty option) or a document.
Fetched == { <<>> } \cup { <<d>> : d \in CallDocs }

\* Mutant: every key reads the target url.
ConfigGet_TargetUrl(cfg, key) == cfg.target_url

\* config.get(key) for the two keys main reads.
ConfigGet(cfg, key) ==
  IF key = "target_url" THEN cfg.target_url ELSE cfg.output_csv_path

\* `not x` for an optional string.
Falsy(opt) == opt = <<>> \/ opt[1] = ""

\* One collaborator call with its arguments.
Call(fn, u, h, data, path) ==
  [fn |-> fn, url |-> u, html |-> h, data |-> data, path |-> path]

\* Mutant: the page is rendered whatever the first parse returned.
NeedsRender_Always(data) == TRUE

\* `if not leaderboard_data` after the first parse
NeedsRender(data) == data = <<>>

\* Mutant: the test before writing is dropped.
ParseFailed_Never(data) == FALSE

\* `if not leaderboard_data` before writing
ParseFailed(data) == data = <<>>

InitMain ==
  /\ ParseIdle
  /\ CellsIdle
  /\ returns = <<>>
  /\ m_pc = "setup"
  /\ config = NoConfig
  /\ url = <<>>
  /\ html_content = <<>>
  /\ leaderboard_data = <<>>
  /\ output_path = <<>>
  /\ calls = <<>>
  /\ FetchIdle
  /\ RenderIdle

\* setup_logger()
SetupLogger ==
  /\ m_pc = "setup"
  /\ m_pc' = "config"
  /\ calls' = Append(calls, Call("setup_logger", <<>>, <<>>, <<>>, <<>>))
  /\ UNCHANGED <<config, url, html_content, leaderboard_data, output_path>>
  /\ UNCHANGED <<parse_vars, cell_vars, call_vars, scraper_vars>>

\* config = load_config(); url = config.get("target_url"); without a url main
\* returns.
LoadConfig ==
  /\ m_pc = "config"
  /\ config' \in Configs
  /\ url' = ConfigGet(config', "target_url")
  /\ m_pc' = IF Falsy(url') THEN "end" ELSE "fetch"
  /\ calls' = Append(calls, Call("load_config", <<>>, <<>>, <<>>, <<>>))
  /\ UNCHANGED <<html_content, leaderboard_data, output_path>>
  /\ UNCHANGED <<parse_vars, cell_vars, call_vars, scraper_vars>>

\* html_content = fetch_html(url); without content main returns.
FetchHtml ==
  /\ m_pc = "fetch"
  /\ html_content' \in Fetched
  /\ m_pc' = IF html_content' = <<>> THEN "end" ELSE "parse"
  /\ calls' = Append(calls, Call("fetch_html", url, <<>>, <<>>, <<>>))
  /\ UNCHANGED <<config, url, leaderboard_data, output_path>>
  /\ UNCHANGED <<parse_vars, cell_vars, call_vars, scraper_vars>>

\* parse_leaderboard(html_content) is entered, at line 57 or at line 65.
CallParse ==
  /\ m_pc \in {"parse", "parse_again"}
  /\ pc = "idle"
  /\ html' = html_content[1]
  /\ pc' = "start"
  /\ m_pc' = IF m_pc = "parse" THEN "parsing" ELSE "parsing_again"
  /\ calls' = Append(calls, Call("parse_leaderboard", <<>>, html_content, <<>>, <<>>))
  /\ UNCHANGED <<table, result, headers_found, header_row_index, best_idx, best_score>>
  /\ UNCHANGED <<config, url, html_content, leaderboard_data, output_path>>
  /\ UNCHANGED <<cell_vars, call_vars, scraper_vars>>

\* leaderboard_data = parse_leaderboard(html_content) at line 57: an empty
\* result sends main to the rendering fetch; an exception leaves main.
ParsedFirst ==
  /\ m_pc = "parsing"
  /\ pc \in {"done", "raised"}
  /\ pc' = "idle"
  /\ returns' = Append(returns, [doc |-> html,
                                  raised |-> (pc = "raised"),
                                  value |-> IF pc = "done" THEN result ELSE <<>>])
  /\ IF pc = "raised"
       THEN m_pc' = "raised" /\ UNCHANGED leaderboard_data
       ELSE /\ leaderboard_data' = result
            /\ m_pc' = IF NeedsRender(leaderboard_data') THEN "render" ELSE "check"
  /\ UNCHANGED <<html, table, result, headers_found, header_row_index, best_idx, best_score>>
  /\ UNCHANGED <<config, url, html_content, output_path, calls>>
  /\ UNCHANGED <<cell_vars, scraper_vars>>

\* html_content = fetch_html_with_playwright(url); the parse is repeated only
\* on content.
RenderWithPlaywright ==
  /\ m_pc = "render"
  /\ html_content' \in Fetched
  /\ m_pc' = IF html_content' # <<>> THEN "parse_again" ELSE "check"
  /\ calls' = Append(calls, Call("fetch_html_with_playwright", url, <<>>, <<>>, <<>>))
  /\ UNCHANGED <<config, url, leaderboard_data, output_path>>
  /\ UNCHANGED <<parse_vars, cell_vars, call_vars, scraper_vars>>

\* leaderboard_data = parse_leaderboard(html_content) at line 65.
ParsedAgain ==
  /\ m_pc = "parsing_again"
  /\ pc \in {"done", "raised"}
  /\ pc' = "idle"
  /\ returns' = Append(returns, [doc |-> html,
                                  raised |-> (pc = "raised"),
                                  value |-> IF pc = "done" THEN result ELSE <<>>])
  /\ IF pc = "raised"
       THEN m_pc' = "raised" /\ UNCHANGED leaderboard_data
       ELSE m_pc' = "check" /\ leaderboard_data' = result
  /\ UNCHANGED <<html, table, result, headers_found, header_row_index, best_idx, best_score>>
  /\ UNCHANGED <<config, url, html_content, output_path, calls>>
  /\ UNCHANGED <<cell_vars, scraper_vars>>

\* Without data main returns; otherwise output_path =
\* config.get("output_csv_path"), and without a path main returns.
CheckData ==
  /\ m_pc = "check"
  /\ IF ParseFailed(leaderboard_data)
       THEN m_pc' = "end" /\ UNCHANGED output_path
       ELSE /\ output_path' = ConfigGet(config, "output_csv_path")
            /\ m_pc' = IF Falsy(output_path') THEN "end" ELSE "write"
  /\ UNCHANGED <<config, url, html_content, leaderboard_data, calls>>
  /\ UNCHANGED <<parse_vars, cell_vars, call_vars, scraper_vars>>

\* write_to_csv(leaderboard_data, output_path): it returns or raises, and the
\* exception is caught and logged.
WriteCsv ==
  /\ m_pc = "write"
  /\ m_pc' \in {"completed", "write_failed"}
  /\ calls' = Append(calls, Call("write_to_csv", <<>>, <<>>, leaderboard_data, output_path))
  /\ UNCHANGED <<config, url, html_content, leaderboard_data, output_path>>
  /\ UNCHANGED <<parse_vars, cell_vars, call_vars, scraper_vars>>

NextMain ==
  \/ SetupLogger \/ LoadConfig \/ FetchHtml \/ CallParse \/ ParsedFirst
  \/ RenderWithPlaywright \/ ParsedAgain \/ CheckData \/ WriteCsv
  \/ ReadNextData \/ FindTable \/ TheadHeaders \/ FallbackHeaders \/ ExtractRows

MainSpec == InitMain /\ [][NextMain]_vars

\* ------------------------------------------------------------ fetch_html

\* The largest retries argument.
MaxRetries == 2

\* The largest delay argument, in seconds.
MaxDelay == 2

Urls == {"https://aa", "https://bb"}

\* What fetch_html_with_playwright returns: None (the empty option) or the
\* page content, which may be the empty text.
Rendered == { <<>>, <<"">>, <<"<html>a">>, <<"<html>b">> }

RECURSIVE Pow2(_)
Pow2(n) == IF n <= 0 THEN 1 ELSE 2 * Pow2(n - 1)

Max(a, b) == IF a >= b THEN a ELSE b

\* range(retries + 1): the number of iterations.
Attempts(r) == IF r + 1 > 0 THEN r + 1 ELSE 0

\* Mutant: the wait before an attempt is made before the first one too.
SleepsBefore_Always(a) == TRUE

\* `if attempt > 0`
SleepsBefore(a) == a > 0

\* max(min_delay, delay * (2 ** (attempt-1)))
RateLimitDelay(d, a) == Max(1, d * Pow2(a - 1))

\* Mutant: an empty content counts as a failed attempt.
Succeeded_Truthy(h) == h # <<>> /\ h[1] # ""

\* `if html is not None`
Succeeded(h) == h # <<>>

\* `if attempt < retries`
MayRetry(a, r) == a < r

\* backoff_delay = delay * (2 ** attempt)
BackoffDelay(d, a) == d * Pow2(a)

InitFetch ==
  /\ ParseIdle
  /\ CellsIdle
  /\ returns = <<>>
  /\ MainIdle
  /\ RenderIdle
  /\ f_pc = "loop"
  /\ f_url \in Urls
  /\ retries \in -1..MaxRetries
  /\ delay \in 0..MaxDelay
  /\ attempt = 0
  /\ attempts = <<>>
  /\ waited = 0
  /\ announced = <<>>
  /\ f_value = <<>>

\* `for attempt in range(retries + 1)`: the next iteration, or the end of the
\* loop, after which the function returns None.
NextAttempt ==
  /\ f_pc = "loop"
  /\ IF attempt < Attempts(retries)
       THEN f_pc' = "sleep" /\ UNCHANGED f_value
       ELSE f_pc' = "returned" /\ f_value' = <<>>
  /\ UNCHANGED <<f_url, retries, delay, attempt, attempts, waited, announced>>
  /\ UNCHANGED <<parse_vars, cell_vars, call_vars, main_vars, render_vars>>

\* Rate limiting: time.sleep before every attempt but the first.
SleepBefore ==
  /\ f_pc = "sleep"
  /\ f_pc' = "attempt"
  /\ waited' = IF SleepsBefore(attempt)
                 THEN waited + RateLimitDelay(delay, attempt)
                 ELSE waited
  /\ UNCHANGED <<f_url, retries, delay, attempt, attempts, announced, f_value>>
  /\ UNCHANGED <<parse_vars, cell_vars, call_vars, main_vars, render_vars>>

\* html = fetch_html_with_playwright(url); a content is returned at once.
Attempt ==
  /\ f_pc = "attempt"
  /\ \E h \in Rendered :
        /\ attempts' = Append(attempts, [url |-> f_url, waited |-> waited, html |-> h])
        /\ IF Succeeded(h)
             THEN f_pc' = "returned" /\ f_value' = h
             ELSE f_pc' = "failed" /\ UNCHANGED f_value
  /\ waited' = 0
  /\ UNCHANGED <<f_url, retries, delay, attempt, announced>>
  /\ UNCHANGED <<parse_vars, cell_vars, call_vars, main_vars, render_vars>>

\* After a failed attempt: the warning and time.sleep(backoff_delay) when
\* attempts are left, else the error and `return None`.
Backoff ==
  /\ f_pc = "failed"
  /\ IF MayRetry(attempt, retries)
       THEN /\ announced' = Append(announced, BackoffDelay(delay, attempt))
            /\ waited' = waited + BackoffDelay(delay, attempt)
            /\ attempt' = attempt + 1
            /\ f_pc' = "loop"
            /\ UNCHANGED f_value
       ELSE /\ f_pc' = "returned"
            /\ f_value' = <<>>
            /\ UNCHANGED <<announced, waited, attempt>>
  /\ UNCHANGED <<f_url, retries, delay, attempts>>
  /\ UNCHANGED <<parse_vars, cell_vars, call_vars, main_vars, render_vars>>

NextFetch == NextAttempt \/ SleepBefore \/ Attempt \/ Backoff

FetchSpec == InitFetch /\ [][NextFetch]_vars

\* Every step of fetch_html is eventually taken: time.sleep returns and the
\* renderer returns.
FetchLiveSpec == FetchSpec /\ WF_vars(NextFetch)

\* -------------------------------------------- fetch_html_with_playwright

\* The largest number of buttons in the first row of the thead.
MaxButtons == 2

\* The exceptions of the browser steps.
Failures == {"Error", "TimeoutError"}

\* page.content() of the rendered page.
PageContents == {"", "<html>a", "<html>b"}

\* Mutant: the outer handler is `except TimeoutError`.
OuterCatches_TimeoutOnly(exc) == exc = "TimeoutError"

\* `except Exception as e` around the whole function body
OuterCatches(exc) == exc \in Failures

\* Mutant: the headers are clicked whatever the flag.
ClicksHeaders_Always(flag) == TRUE

\* `if click_header_buttons`
ClicksHeaders(flag) == flag

InitRender ==
  /\ ParseIdle
  /\ CellsIdle
  /\ returns = <<>>
  /\ MainIdle
  /\ FetchIdle
  /\ r_pc = "enter"
  /\ r_url \in Urls
  /\ click_header_buttons \in BOOLEAN
  /\ status_msgs = <<>>
  /\ btn_count = 0
  /\ btn = 0
  /\ tried = <<>>
  /\ r_failed = <<>>
  /\ r_html = ""
  /\ read_at = -1
  /\ r_value = <<>>

\* An exception of a step outside the inner handlers: the outer handler logs
\* it and returns None; an exception it does not catch leaves the function.
Fails(step, exc) ==
  /\ r_failed' = Append(r_failed, [step |-> step, exc |-> exc])
  /\ r_pc' = IF OuterCatches(exc) THEN "returned" ELSE "raised"
  /\ r_value' = <<>>

\* The step ends without exception and the function goes on at `next`.
Passes(next) ==
  /\ r_pc' = next
  /\ UNCHANGED <<r_failed, r_value>>

\* console.status(...) and sync_playwright() are entered.
EnterStatus ==
  /\ r_pc = "enter"
  /\ Passes("launch") \/ \E e \in Failures : Fails("enter", e)
  /\ UNCHANGED <<r_url, click_header_buttons, status_msgs, btn_count, btn, tried, r_html, read_at>>
  /\ UNCHANGED <<parse_vars, cell_vars, call_vars, main_vars, fetch_vars>>

\* "Launching browser...", then the browser, the page and its headers.
Launch ==
  /\ r_pc = "launch"
  /\ status_msgs' = Append(status_msgs, "Launching browser...")
  /\ Passes("navigate") \/ \E e \in Failures : Fails("launch", e)
  /\ UNCHANGED <<r_url, click_header_buttons, btn_count, btn, tried, r_html, read_at>>
  /\ UNCHANGED <<parse_vars, cell_vars, call_vars, main_vars, fetch_vars>>

\* "Navigating to page...", then page.goto(url).
Navigate ==
  /\ r_pc = "navigate"
  /\ status_msgs' = Append(status_msgs, "Navigating to page...")
  /\ Passes("wait") \/ \E e \in Failures : Fails("goto", e)
  /\ UNCHANGED <<r_url, click_header_buttons, btn_count, btn, tried, r_html, read_at>>
  /\ UNCHANGED <<parse_vars, cell_vars, call_vars, main_vars, fetch_vars>>

\* "Waiting for page to load...", then page.wait_for_load_state; the header
\* buttons come next when the flag is set.
WaitLoad ==
  /\ r_pc = "wait"
  /\ status_msgs' = Append(status_msgs, "Waiting for page to load...")
  /\ \/ Passes(IF ClicksHeaders(click_header_buttons) THEN "locate" ELSE "settle")
     \/ \E e \in Failures : Fails("wait", e)
  /\ UNCHANGED <<r_url, click_header_buttons, btn_count, btn, tried, r_html, read_at>>
  /\ UNCHANGED <<parse_vars, cell_vars, call_vars, main_vars, fetch_vars>>

\* "Clicking headers...", then the locator and its count; an exception here is
\* caught by the inner handler and the buttons are given up.
LocateButtons ==
  /\ r_pc = "locate"
  /\ status_msgs' = Append(status_msgs, "Clicking headers...")
  /\ \/ /\ btn_count' \in 0..MaxButtons
        /\ r_pc' = "buttons"
        /\ UNCHANGED r_failed
     \/ /\ \E e \in Failures : r_failed' = Append(r_failed, [step |-> "locate", exc |-> e])
        /\ r_pc' = "settle"
        /\ UNCHANGED btn_count
  /\ btn' = 0
  /\ UNCHANGED <<r_url, click_header_buttons, tried, r_html, read_at, r_value>>
  /\ UNCHANGED <<parse_vars, cell_vars, call_vars, main_vars, fetch_vars>>

\* `for i in range(btn_count)`: the button is clicked, or skipped as not
\* visible or not enabled, or an exception is caught and logged; the loop
\* goes on in every case, and ends after the last button.
ClickButton ==
  /\ r_pc = "buttons"
  /\ IF btn < btn_count
       THEN /\ tried' = Append(tried, btn)
            /\ btn' = btn + 1
            /\ \/ UNCHANGED r_failed
               \/ \E e \in Failures : r_failed' = Append(r_failed, [step |-> "click", exc |-> e])
            /\ UNCHANGED r_pc
       ELSE /\ r_pc' = "settle"
            /\ UNCHANGED <<tried, btn, r_failed>>
  /\ UNCHANGED <<r_url, click_header_buttons, status_msgs, btn_count, r_html, read_at, r_value>>
  /\ UNCHANGED <<parse_vars, cell_vars, call_vars, main_vars, fetch_vars>>

\* page.wait_for_load_state('networkidle') after the clicks.
Settle ==
  /\ r_pc = "settle"
  /\ Passes("extract") \/ \E e \in Failures : Fails("settle", e)
  /\ UNCHANGED <<r_url, click_header_buttons, status_msgs, btn_count, btn, tried, r_html, read_at>>
  /\ UNCHANGED <<parse_vars, cell_vars, call_vars, main_vars, fetch_vars>>

\* "Extracting HTML...", then html = page.content().
ExtractHtml ==
  /\ r_pc = "extract"
  /\ status_msgs' = Append(status_msgs, "Extracting HTML...")
  /\ \/ /\ Passes("close")
        /\ r_html' \in PageContents
        /\ read_at' = Len(status_msgs')
     \/ /\ \E e \in Failures : Fails("content", e)
        /\ UNCHANGED <<r_html, read_at>>
  /\ UNCHANGED <<r_url, click_header_buttons, btn_count, btn, tried>>
  /\ UNCHANGED <<parse_vars, cell_vars, call_vars, main_vars, fetch_vars>>

\* browser.close(), then `return html`.
Close ==
  /\ r_pc = "close"
  /\ \/ /\ r_pc' = "returned"
        /\ r_value' = <<r_html>>
        /\ UNCHANGED r_failed
     \/ \E e \in Failures : Fails("close", e)
  /\ UNCHANGED <<r_url, click_header_buttons, status_msgs, btn_count, btn, tried, r_html, read_at>>
  /\ UNCHANGED <<parse_vars, cell_vars, call_vars, main_vars, fetch_vars>>

NextRender ==
  \/ EnterStatus \/ Launch \/ Navigate \/ WaitLoad \/ LocateButtons
  \/ ClickButton \/ Settle \/ ExtractHtml \/ Close

RenderSpec == InitRender /\ [][NextRender]_vars

\* ------------------------------------------------------------ one call

Next == ReadNextData \/ FindTable \/ TheadHeaders \/ FallbackHeaders \/ ExtractRows

Spec == Init /\ [][Next]_vars

\* ------------------------------------------------------------------ claims

\* What the claims read off a state.
Returned == pc = "done"

header_texts == HeaderTexts(html.thead.rows)

body_rows == html.tbody.rows

\* The thead of the first table has at least one row.
HasTheadRows == html.hasTable /\ html.thead.present /\ html.thead.rows # <<>>

KnownLabels == {known_header_patterns[k] : k \in 1..Len(known_header_patterns)}

\* A text holds a known label, compared case-insensitively, as a substring.
HoldsLabel(text) == \E label \in KnownLabels : Contains(label, Lower(text))

\* The number of non-empty cell texts of a row that hold some known label.
CellHits(headers) ==
  Cardinality({i \in 1..Len(headers) : headers[i] # <<>> /\ HoldsLabel(headers[i])})

\* The number of known labels held by some non-empty cell text of a row.
LabelsHit(headers) ==
  Cardinality({label \in KnownLabels :
                 \E i \in 1..Len(headers) :
                    headers[i] # <<>> /\ Contains(label, Lower(headers[i]))})

\* Some cell of a cell list is a non-empty string.
HasContent(cells) == \E k \in 1..Len(cells) : cells[k] # <<>>

\* The tbody rows (1-based) whose normalized cell list has a non-empty cell.
ContentRows == {i \in 1..Len(body_rows) : HasContent(CellData(body_rows[i]))}

Min(S) == CHOOSE x \in S : \A y \in S : x <= y

\* The header came from a tbody row (Source C).
FromBodyRow == Returned /\ header_row_index # None

AdoptedCells == CellData(body_rows[header_row_index + 1])

\* C1 (as stated): with thead rows, the emitted header row has the maximum,
\* among all thead rows, of the number of non-empty cell texts that hold a
\* known label.
C1_Original ==
  (Returned /\ HasTheadRows) =>
     \A r \in 1..Len(header_texts) : CellHits(result[1]) >= CellHits(header_texts[r])

\* C1 (amended): with thead rows, a row's score is the number of known labels
\* that occur, case-insensitively and as a substring, in at least one of its
\* non-empty cell texts; the emitted header is a thead row whose score is the
\* maximum among all thead rows.
C1_HeaderHasMaxLabelsHit ==
  (Returned /\ HasTheadRows) =>
     /\ best_idx \in 0..(Len(header_texts) - 1)
     /\ result[1] = header_texts[best_idx + 1]
     /\ best_score = LabelsHit(result[1])
     /\ \A r \in 1..Len(header_texts) : LabelsHit(result[1]) >= LabelsHit(header_texts[r])

\* A later row of one cell holding two labels wins over an earlier row that
\* holds one label: the two counts differ on the chosen row.
C1_Witness ==
  /\ Returned /\ HasTheadRows
  /\ best_idx >= 1
  /\ best_score = 2
  /\ CellHits(result[1]) = 1
  /\ LabelsHit(header_texts[1]) = 1

\* The quality of a thead row: its distinct non-empty cell texts, compared
\* case-insensitively, minus its empty cells.
RowQuality(headers) ==
  Cardinality({Lower(headers[i]) : i \in {j \in 1..Len(headers) : headers[j] # <<>>}})
  - Cardinality({i \in 1..Len(headers) : headers[i] = <<>>})

\* C2: with thead rows of which none holds a known label, the chosen header is
\* the thead row of maximum quality.
C2_QualityFallthrough ==
  (Returned /\ HasTheadRows /\ \A r \in 1..Len(header_texts) : LabelsHit(header_texts[r]) = 0) =>
     \A r \in 1..Len(header_texts) : RowQuality(result[1]) >= RowQuality(header_texts[r])

\* C3 (as stated): every column name of the header of a non-empty result is a
\* non-empty string.
C3_Original ==
  (Returned /\ result # <<>>) =>
     \A k \in 1..Len(result[1]) : result[1][k] # <<>>

\* C3 (amended): every column name of a header adopted from a tbody row is a
\* non-empty string, and stays non-empty when trimmed.
C3_BodyHeaderNamesNonEmpty ==
  (FromBodyRow /\ result # <<>>) =>
     \A k \in 1..Len(result[1]) : result[1][k] # <<>> /\ Strip(result[1][k]) # <<>>

\* A header adopted from a row that has an empty cell and a non-empty one.
C3_Witness ==
  /\ FromBodyRow
  /\ \E k \in 1..Len(AdoptedCells) : AdoptedCells[k] = <<>>
  /\ \E k \in 1..Len(AdoptedCells) : AdoptedCells[k] # <<>>

\* C4: a thead row that holds strictly more known labels than every other
\* thead row is the header, whatever its index.
C4_LabeledHeaderWins ==
  (Returned /\ HasTheadRows) =>
     \A r \in 1..Len(header_texts) :
        (\A q \in 1..Len(header_texts) :
            q # r => LabelsHit(header_texts[r]) > LabelsHit(header_texts[q]))
        => (best_idx = r - 1 /\ result[1] = header_texts[r])

\* The strictly best row is the last of three, after a row without content
\* and a row that holds fewer labels.
C4_Witness ==
  /\ Returned /\ HasTheadRows
  /\ Len(header_texts) = 3
  /\ best_idx = 2
  /\ ~HasContent(header_texts[1])
  /\ LabelsHit(header_texts[2]) = 1
  /\ LabelsHit(header_texts[3]) = 2

C6_FirstContentRowIsHeader ==
  (Returned /\ html.hasTable /\ ~html.thead.present /\ html.tbody.present) =>
     IF ContentRows = {}
       THEN header_row_index = None /\ result = <<>>
       ELSE /\ header_row_index = Min(ContentRows) - 1
            /\ result # <<>>
            /\ Len(result[1]) = Len(AdoptedCells)
            /\ \A k \in 1..Len(AdoptedCells) :
                  Strip(AdoptedCells[k]) # <<>> => result[1][k] = Strip(AdoptedCells[k])

\* A row without content is skipped, the next row is adopted, and a later row
\* with content is left to the data.
C6_Witness ==
  /\ Returned /\ html.hasTable /\ ~html.thead.present
  /\ header_row_index = 1
  /\ Len(body_rows) = 3
  /\ ContentRows = {2, 3}
  /\ Len(result) = 2

\* C7: the tbody row adopted as header is not emitted among the data rows: the
\* data rows are as many as the other tbody rows with content.
C7_HeaderRowNotData ==
  FromBodyRow =>
     /\ header_row_index + 1 \in ContentRows
     /\ Len(result) - 1 = Cardinality(ContentRows \ {header_row_index + 1})

\* The adopted row is followed by a data row with the same cells.
C7_Witness ==
  /\ FromBodyRow
  /\ Len(result) = 2
  /\ result[2] = AdoptedCells

\* C8: in a header adopted from a tbody row, a cell that is empty once trimmed
\* becomes column_<k>, k its 1-based position, every other cell keeps its
\* trimmed value at its position, and the header is as long as the row.
C8_Placeholders ==
  FromBodyRow =>
     /\ Len(result[1]) = Len(AdoptedCells)
     /\ \A k \in 1..Len(AdoptedCells) :
           result[1][k] = IF Strip(AdoptedCells[k]) = <<>>
                            THEN <<"c","o","l","u","m","n","_">> \o <<Digits[k + 1]>>
                            ELSE Strip(AdoptedCells[k])

\* The adopted row has an empty cell after its first cell and a cell whose
\* value changes when trimmed.
C8_Witness ==
  /\ FromBodyRow
  /\ \E k \in 2..Len(AdoptedCells) : AdoptedCells[k] = <<>>
  /\ \E k \in 1..Len(AdoptedCells) :
        Strip(AdoptedCells[k]) # <<>> /\ Strip(AdoptedCells[k]) # AdoptedCells[k]

\* C9: every data row of the output is a non-empty list with a non-empty
\* string, and the data rows are as many as the tbody rows with content that
\* were not adopted as header.
C9_NoEmptyDataRows ==
  Returned =>
     /\ \A i \in 2..Len(result) : result[i] # <<>> /\ HasContent(result[i])
     /\ result # <<>> =>
          Len(result) - 1 = Cardinality(ContentRows \ {header_row_index + 1})

\* Under a thead header, a row of empty cells precedes a row with content,
\* which is the only data row.
C9_Witness ==
  /\ Returned /\ HasTheadRows
  /\ Len(body_rows) = 2
  /\ body_rows[1] # <<>> /\ ~HasContent(CellData(body_rows[1]))
  /\ ContentRows = {2}
  /\ Len(result) = 2

\* C10: a first table without thead rows and without a tbody row with content
\* yields the empty list.
C10_NoHeaderSourceEmpty ==
  (Returned /\ html.hasTable /\ ~HasTheadRows /\ ContentRows = {}) => result = <<>>

\* An empty thead and two tbody rows without content, one of them with text in
\* its first cell and no image.
C10_Witness ==
  /\ Returned /\ html.hasTable
  /\ html.thead.present /\ html.thead.rows = <<>>
  /\ Len(body_rows) = 2
  /\ ContentRows = {}
  /\ \E i \in 1..2 : body_rows[i] # <<>> /\ body_rows[i][1].pieces # <<>>
  /\ result = <<>>

\* Past the lookup of the table.
PastLookup == pc \notin {"start", "table"}

\* C11: on a document without a table, the call returns the empty list and
\* does not raise, whatever the embedded script holds.
C11_NoTableReturnsEmpty ==
  (~html.hasTable /\ PastLookup) => (pc = "done" /\ result = <<>>)

\* A document without a table whose embedded script is not valid JSON.
C11_Witness ==
  /\ ~html.hasTable /\ Returned
  /\ html.script # <<>> /\ html.script[1].string = << <<"{">> >>
  /\ result = <<>>

\* The thead of the first table is present and holds no row.
EmptyThead == html.hasTable /\ html.thead.present /\ html.thead.rows = <<>>

\* C12: a thead without rows gives what no thead gives: nothing is emitted
\* from the thead, the header is the first tbody row with content, with its
\* placeholders, that row is left out of the data, and without such a row the
\* result is empty.
C12_EmptyTheadAsNoThead ==
  (Returned /\ EmptyThead) =>
     IF ContentRows = {}
       THEN header_row_index = None /\ result = <<>>
       ELSE /\ header_row_index = Min(ContentRows) - 1
            /\ Len(result) = Cardinality(ContentRows)
            /\ Len(result[1]) = Len(AdoptedCells)
            /\ \A k \in 1..Len(AdoptedCells) :
                  result[1][k] = IF Strip(AdoptedCells[k]) = <<>>
                                   THEN <<"c","o","l","u","m","n","_">> \o <<Digits[k + 1]>>
                                   ELSE Strip(AdoptedCells[k])

\* Under an empty thead, the second tbody row is adopted with a placeholder and
\* a row follows it as data.
C12_Witness ==
  /\ Returned /\ EmptyThead
  /\ header_row_index = 1
  /\ \E k \in 1..Len(AdoptedCells) : Strip(AdoptedCells[k]) = <<>>
  /\ Len(result) = 2

\* The tbody rows (1-based) that the data loop keeps: those with content that
\* were not adopted as header.
KeptRows == ContentRows \ {header_row_index + 1}

\* The k-th kept row in document order.
Nth(k) == CHOOSE i \in KeptRows : Cardinality({j \in KeptRows : j < i}) = k - 1

\* C15: the data rows are the cell lists of the kept tbody rows, one for one
\* and in document order; under a thead header every tbody row with content
\* is kept.
C15_DataRowsInOrder ==
  (Returned /\ result # <<>>) =>
     /\ Len(result) - 1 = Cardinality(KeptRows)
     /\ \A k \in 1..Cardinality(KeptRows) : result[k + 1] = CellData(body_rows[Nth(k)])
     /\ HasTheadRows => (header_row_index = None /\ KeptRows = ContentRows)

\* Under a thead header, two tbody rows with different cells, the first of
\* them in the first position of the tbody.
C15_Witness ==
  /\ Returned /\ HasTheadRows
  /\ Len(result) = 3
  /\ ContentRows = {1, 2}
  /\ result[2] # result[3]
  /\ result[2] = CellData(body_rows[1])

\* C18: a data row has as many elements as its tbody row has cells, whatever
\* the length of the header.
C18_RaggedRowsKept ==
  (Returned /\ result # <<>>) =>
     \A k \in 1..(Len(result) - 1) :
        k <= Cardinality(KeptRows) /\ Len(result[k + 1]) = Len(body_rows[Nth(k)])

\* A data row longer than the header, with an empty cell.
C18_Witness ==
  /\ Returned /\ Len(result) >= 2
  /\ Len(result[2]) > Len(result[1])
  /\ \E k \in 1..Len(result[2]) : result[2][k] = <<>>

\* The provider name of the cell has been extracted.
Named == cell_pc = "named"

HasImg == cell.img # <<>>

\* The alt and src attributes of the cell's image, trimmed; empty when missing.
TrimmedAlt == Strip(Get(cell.img[1].alt, <<>>))

TrimmedSrc == Strip(Get(cell.img[1].src, <<>>))

\* The name an alt text stands for.
AltName(a) ==
  IF EndsWith(Lower(a), LogoSuffix) THEN Strip(SubSeq(a, 1, Len(a) - 5)) ELSE a

\* The last path segment of a src, without its extension.
FileStem(sr) == SplitextRoot(Basename(sr))

\* C13: without an img the name is empty; with a non-empty trimmed alt the name
\* comes from the alt alone, whatever the src; with a missing or empty alt it
\* is the file stem of the trimmed src; with src empty as well it is empty.
C13_Precedence ==
  Named =>
     IF ~HasImg THEN cell_value = <<>>
     ELSE IF TrimmedAlt # <<>> THEN cell_value = AltName(TrimmedAlt)
     ELSE IF TrimmedSrc # <<>> THEN cell_value = FileStem(TrimmedSrc)
     ELSE cell_value = <<>>

\* An image with a usable alt and a usable src of another name: the alt wins.
C13_Witness ==
  /\ Named /\ HasImg
  /\ TrimmedAlt # <<>>
  /\ TrimmedSrc # <<>> /\ FileStem(TrimmedSrc) # <<>>
  /\ cell_value # FileStem(TrimmedSrc)

\* C14: when the last five characters of the trimmed alt are " logo" in any
\* letter case, the name is the alt without them, trimmed, and is not empty;
\* any other alt is the name as it is once trimmed.
C14_LogoSuffixRemoved ==
  (Named /\ HasImg /\ TrimmedAlt # <<>>) =>
     LET a == TrimmedAlt
         n == Len(a)
     IN IF n >= 5 /\ Lower(SubSeq(a, n - 4, n)) = LogoSuffix
          THEN /\ cell_value # <<>>
               /\ cell_value = Strip(SubSeq(a, 1, n - 5))
          ELSE cell_value = a

\* The suffix is written with a capital and is preceded by two blanks: the
\* name is shorter than the alt without its last five characters.
C14_Witness ==
  /\ Named /\ HasImg
  /\ Len(TrimmedAlt) >= 5
  /\ SubSeq(TrimmedAlt, Len(TrimmedAlt) - 4, Len(TrimmedAlt)) # LogoSuffix
  /\ Lower(SubSeq(TrimmedAlt, Len(TrimmedAlt) - 4, Len(TrimmedAlt))) = LogoSuffix
  /\ cell_value # <<>>
  /\ Len(cell_value) < Len(TrimmedAlt) - 5

\* The strings of a sequence one after the other, nothing between them.
RECURSIVE Glue(_)
Glue(strs) == IF strs = <<>> THEN <<>> ELSE Head(strs) \o Glue(Tail(strs))

\* The strings of a sequence one after the other, one blank between them.
RECURSIVE Spaced(_)
Spaced(strs) ==
  IF strs = <<>> THEN <<>>
  ELSE IF Len(strs) = 1 THEN strs[1]
  ELSE strs[1] \o <<" ">> \o Spaced(Tail(strs))

\* The text nodes of the cell, each trimmed, those that become empty left out.
TrimmedPieces ==
  SelectSeq([k \in 1..Len(cell.pieces) |-> Strip(cell.pieces[k])], LAMBDA q : q # <<>>)

\* C19 (as stated): a header cell is its text pieces joined by single blanks;
\* a body cell is its whole text content with only the surrounding whitespace
\* trimmed.
C19_Original ==
  /\ cell_pc = "head" => cell_value = Spaced(TrimmedPieces)
  /\ cell_pc = "body" => cell_value = Strip(Glue(cell.pieces))

\* C19 (amended): both readers trim every text piece and leave out the pieces
\* that become empty; a header cell joins the rest by single blanks, a body
\* cell joins them with nothing between, so whitespace at the edge of a piece
\* is lost even inside the cell.
C19_CellTextReaders ==
  /\ cell_pc = "head" => cell_value = Spaced(TrimmedPieces)
  /\ cell_pc = "body" => cell_value = Glue(TrimmedPieces)

\* A body cell of two pieces, the first ending in a blank: the value has lost
\* the blank between them.
C19_Witness ==
  /\ cell_pc = "body"
  /\ Len(cell.pieces) = 2
  /\ cell_value # <<>>
  /\ cell_value # Strip(Glue(cell.pieces))

\* C16: two calls on the same document end the same way, with the same value,
\* whatever was parsed between them.
C16_Deterministic ==
  \A i, j \in 1..Len(returns) :
     returns[i].doc = returns[j].doc =>
        returns[i].raised = returns[j].raised /\ returns[i].value = returns[j].value

\* The same document with a header and data is parsed before and after
\* another document that also yields rows.
C16_Witness ==
  /\ Len(returns) = 3
  /\ returns[1].doc = returns[3].doc
  /\ returns[2].doc # returns[1].doc
  /\ Len(returns[1].value) >= 2
  /\ returns[2].value # <<>>
  /\ returns[3].value = returns[1].value

\* The first table of a document, or its absence.
FirstTable(doc) == [hasTable |-> doc.hasTable, thead |-> doc.thead, tbody |-> doc.tbody]

\* C17: documents with the same first table give the same value, whatever
\* tables follow it.
C17_OnlyFirstTable ==
  \A i, j \in 1..Len(returns) :
     FirstTable(returns[i].doc) = FirstTable(returns[j].doc) =>
        returns[i].value = returns[j].value

\* An empty first table followed by a usable table gives the empty list, as
\* the empty table alone does.
C17_Witness ==
  \E i, j \in 1..Len(returns) :
     /\ returns[i].doc.later = <<>>
     /\ returns[j].doc.later = <<UsableTable>>
     /\ FirstTable(returns[i].doc) = FirstTable(returns[j].doc)
     /\ returns[i].value = <<>> /\ returns[j].value = <<>>

\* The positions in calls of the write_to_csv calls.
Writes == {i \in 1..Len(calls) : calls[i].fn = "write_to_csv"}

\* C20: write_to_csv is not called when the last parse_leaderboard call
\* returned an empty result, and the data of every write_to_csv call is the
\* non-empty result of the most recent parse_leaderboard call.
C20_NoWriteOfEmptyParse ==
  /\ (returns # <<>> /\ returns[Len(returns)].value = <<>>) => Writes = {}
  /\ \A i \in Writes :
        /\ returns # <<>>
        /\ calls[i].data # <<>>
        /\ calls[i].data = returns[Len(returns)].value

\* The first parse found nothing, the parse of the rendered page found rows,
\* and they were written.
C20_Witness ==
  /\ Len(returns) = 2
  /\ returns[1].value = <<>>
  /\ returns[2].value # <<>>
  /\ \E i \in Writes : calls[i].data = returns[2].value

\* The positions in calls of the calls of one collaborator.
CallsOf(fn) == {i \in 1..Len(calls) : calls[i].fn = fn}

\* C21: when main completes and the first parse returned rows, the calls are
\* setup_logger, load_config, fetch_html with the configured target url,
\* parse_leaderboard with the fetched HTML, and write_to_csv with the parsed
\* data and the configured output path, in this order and once each.
C21_CallsInOrder ==
  (m_pc = "completed" /\ Len(returns) = 1) =>
     /\ Len(calls) = 5
     /\ calls[1].fn = "setup_logger"
     /\ calls[2].fn = "load_config"
     /\ calls[3].fn = "fetch_html"
     /\ calls[3].url = config.target_url
     /\ calls[4].fn = "parse_leaderboard"
     /\ calls[4].html = html_content
     /\ calls[4].html = <<returns[1].doc>>
     /\ calls[5].fn = "write_to_csv"
     /\ calls[5].data = returns[1].value
     /\ calls[5].path = config.output_csv_path

\* A run that completed after one parse of a page with a table.
C21_Witness ==
  /\ m_pc = "completed"
  /\ Len(returns) = 1
  /\ Len(returns[1].value) >= 2
  /\ config.target_url # config.output_csv_path

\* C26: main renders the page only after a first parse that returned nothing,
\* and once; it parses again only the content of that rendering; after a first
\* parse that returned rows it never renders and parses once.
C26_RenderOnlyAfterEmptyParse ==
  /\ Cardinality(CallsOf("fetch_html_with_playwright")) <= 1
  /\ Cardinality(CallsOf("parse_leaderboard")) <= 2
  /\ \A i \in CallsOf("fetch_html_with_playwright") :
        /\ returns # <<>> /\ returns[1].value = <<>>
        /\ \E j \in CallsOf("parse_leaderboard") : j < i
  /\ \A i, j \in CallsOf("parse_leaderboard") :
        i < j => /\ \E k \in CallsOf("fetch_html_with_playwright") : i < k /\ k < j
                 /\ calls[j].html # <<>>
                 /\ calls[j].html = html_content
  /\ (m_pc = "check" /\ html_content = <<>>) => Cardinality(CallsOf("parse_leaderboard")) = 1
  /\ (returns # <<>> /\ returns[1].value # <<>>) =>
        /\ CallsOf("fetch_html_with_playwright") = {}
        /\ Cardinality(CallsOf("parse_leaderboard")) = 1

\* The first parse returned nothing and the rendering returned no content:
\* main ended after one rendering and one parse.
C26_Witness ==
  /\ m_pc = "end"
  /\ Len(returns) = 1 /\ returns[1].value = <<>>
  /\ Cardinality(CallsOf("fetch_html_with_playwright")) = 1
  /\ Cardinality(CallsOf("parse_leaderboard")) = 1
  /\ html_content = <<>>

\* A cell holds some text once trimmed.
HasText(c) == \E k \in 1..Len(c.pieces) : Strip(c.pieces[k]) # <<>>

\* The tbody rows (1-based) whose first cell holds text and no image, and
\* whose other cells hold no text.
TextOnlyRows ==
  {i \in 1..Len(body_rows) :
     /\ body_rows[i] # <<>>
     /\ body_rows[i][1].img = <<>> /\ HasText(body_rows[i][1])
     /\ \A k \in 2..Len(body_rows[i]) : ~HasText(body_rows[i][k])}

\* C28: the first element of a data row is the provider name of the first
\* cell of its tbody row, the empty string when that cell has no image; a
\* header adopted from a tbody row names its first column after the provider
\* name; a row with nothing but first-cell text is neither adopted as header
\* nor emitted as data.
C28_FirstCellIsProviderName ==
  (Returned /\ result # <<>>) =>
     /\ \A k \in 1..(Len(result) - 1) :
           LET first == body_rows[Nth(k)][1] IN
           /\ result[k + 1][1] = extract_provider_name(first)
           /\ first.img = <<>> => result[k + 1][1] = <<>>
     /\ header_row_index # None =>
           LET first == body_rows[header_row_index + 1][1] IN
           /\ header_row_index + 1 \notin TextOnlyRows
           /\ first.img = <<>> => result[1][1] = <<"c","o","l","u","m","n","_","1">>
     /\ Len(result) - 1 <=
           Cardinality({i \in 1..Len(body_rows) :
                          i \notin TextOnlyRows /\ i # header_row_index + 1})

\* The first tbody row holds first-cell text only and is passed over; the
\* second, whose first cell also holds text and no image, is adopted for the
\* text of its second cell and names its first column column_1.
C28_Witness ==
  /\ Returned /\ html.hasTable /\ ~HasTheadRows
  /\ 1 \in TextOnlyRows
  /\ header_row_index = 1
  /\ HasText(body_rows[2][1]) /\ body_rows[2][1].img = <<>>
  /\ result[1][1] = <<"c","o","l","u","m","n","_","1">>

\* fetch_html has returned.
Fetched_Done == f_pc = "returned"

\* The attempts (1-based) in which the renderer returned a content.
Successes == {n \in 1..Len(attempts) : attempts[n].html # <<>>}

\* C22: when the first renderer call returns a content, fetch_html returns it
\* after that one call, made with the given url, and without sleeping; in
\* general it returns the content of the first attempt that succeeds, which is
\* the last attempt made.
C22_FirstSuccessReturned ==
  /\ \A n \in 1..Len(attempts) : attempts[n].url = f_url
  /\ \A n \in Successes : n = Len(attempts)
  /\ (Fetched_Done /\ Successes # {}) => f_value = attempts[Len(attempts)].html
  /\ 1 \in Successes => (Len(attempts) = 1 /\ attempts[1].waited = 0 /\ announced = <<>>)
  /\ Successes # {} => Fetched_Done

\* The third attempt returns a content after two failures.
C22_Witness ==
  /\ Fetched_Done
  /\ Len(attempts) = 3
  /\ Successes = {3}
  /\ f_value = attempts[3].html

\* C24: fetch_html returns, after at most retries + 1 renderer calls, and
\* (for retries >= 0) it returns None exactly when every one of its
\* retries + 1 attempts returned None.
C24_TerminatesWithinAttempts ==
  /\ <>Fetched_Done
  /\ [](Len(attempts) <= Attempts(retries))
  /\ []((Fetched_Done /\ retries >= 0) =>
           (f_value = <<>> <=> (Successes = {} /\ Len(attempts) = retries + 1)))

\* Every attempt of a call with retries failed and None was returned.
C24_Witness ==
  /\ Fetched_Done
  /\ retries >= 1
  /\ Len(attempts) = retries + 1
  /\ Successes = {}
  /\ f_value = <<>>

\* C25: after the n-th failed attempt the time slept before attempt n + 1 is
\* delay * 2^(n-1) seconds, the value announced in the warning.
C25_BackoffAsAnnounced ==
  \A n \in 1..(Len(attempts) - 1) :
     /\ announced[n] = delay * Pow2(n - 1)
     /\ attempts[n + 1].waited = delay * Pow2(n - 1)

\* fetch_html_with_playwright has returned a content.
RenderedContent == r_pc = "returned" /\ r_value # <<>>

\* C23: in a run that returns a content the status messages are, in order,
\* launching, navigating, waiting, clicking headers exactly when
\* click_header_buttons is set, and extracting; the value returned is the
\* content read after the last of them.
C23_StatusOrder ==
  RenderedContent =>
     /\ status_msgs =
           <<"Launching browser...", "Navigating to page...", "Waiting for page to load...">>
             \o (IF click_header_buttons THEN <<"Clicking headers...">> ELSE <<>>)
             \o <<"Extracting HTML...">>
     /\ read_at = Len(status_msgs)
     /\ r_value = <<r_html>>

\* A content is returned by a run with click_header_buttons unset.
C23_Witness ==
  /\ RenderedContent
  /\ ~click_header_buttons
  /\ Len(status_msgs) = 4
  /\ r_value[1] # ""

\* The steps whose exceptions the inner handlers catch.
InnerSteps == {"locate", "click"}

\* The function is past the header buttons and has not failed since.
PastButtons == r_pc \in {"settle", "extract", "close"} \/ RenderedContent

====
